---- MODULE Spec2Model ----
(***************************************************************************)
(* A model of the WhatsApp bulk-dispatch server.                           *)
(*                                                                         *)
(* The batch revision (src/unnamed/part_000) is modelled as a state        *)
(* machine: the session registry (clients, userQRCodes), the transport     *)
(* handles with the events they deliver, the live run table                *)
(* (activeSessions) and the POST /api/send-batch handler, cut into the     *)
(* steps between its suspension points (a transport send in flight, a      *)
(* timer).  retryOperation is also modelled on its own, for any            *)
(* maxRetries and baseDelay.                                               *)
(***************************************************************************)
EXTENDS Integers, Sequences, FiniteSets, TLC

VARIABLES
    now,             \* the value Date.now() returns
    handles,         \* every transport handle ever created (new Client)
    clients,         \* clients: user -> handle
    userQRCodes,     \* userQRCodes: user -> pairing payload
    activeSessions,  \* activeSessions: sessionId -> progress entry
    runs,            \* the send-batch requests handled so far
    rt,              \* one free-standing retryOperation call
    rtLog,           \* what that call did: invocations and sleeps
    call,            \* one free-standing call of a pure function
    resp,            \* the last response of a JSON endpoint
    alive,           \* whether the node process is running
    revision,        \* which revision of the server is running
    currentQR        \* currentQR of part_002: the one pairing payload, or null

vars ==
    <<now, handles, clients, userQRCodes, activeSessions, runs, rt, rtLog, call,
      resp, alive, revision, currentQR>>

----------------------------------------------------------------------------
(* Bounds of the model *)

MaxRuns == 1
MaxConcRuns == 2
MaxHandles == 2
MaxBatches == 4
MaxRetriesArg == 4

\* the revisions of the server: part_000 stands for those that keep the
\* pairing payloads in userQRCodes, part_002 keeps one in currentQR
LatestRevision == "part_000"
FirstRevision == "part_002"
Revisions == {LatestRevision, FirstRevision}

\* currentQR = null
NoPayload == 0

Users == {"u1", "u2"}
OneUser == {"u1"}

----------------------------------------------------------------------------
(* Generic helpers *)

Put(f, k, v) == [x \in (DOMAIN f) \cup {k} |-> IF x = k THEN v ELSE f[x]]

Del(f, k) == [x \in (DOMAIN f) \ {k} |-> f[x]]

EmptyMap == [x \in {} |-> 0]

RECURSIVE SelectIdx(_, _, _)
\* the elements s[p..Len(s)] whose index is in keep, in order
SelectIdx(s, keep, p) ==
    IF p > Len(s) THEN <<>>
    ELSE (IF p \in keep THEN <<s[p]>> ELSE <<>>) \o SelectIdx(s, keep, p + 1)

Max(a, b) == IF a >= b THEN a ELSE b
Min(a, b) == IF a <= b THEN a ELSE b

----------------------------------------------------------------------------
(* JavaScript numbers that may be NaN: <<>> is NaN, <<v>> the integer v *)

NaN == <<>>
Num(v) == <<v>>
IsNaN(x) == x = <<>>
JsAdd(a, b) == IF IsNaN(a) \/ IsNaN(b) THEN NaN ELSE Num(a[1] + b[1])
\* a comparison that lets equal numbers pass
JsLe(a, b) == ~IsNaN(a) /\ ~IsNaN(b) /\ a[1] <= b[1]
JsLt(a, b) == ~IsNaN(a) /\ ~IsNaN(b) /\ a[1] < b[1]
\* Math.min(x, cap)
JsMin(a, b) == IF IsNaN(a) \/ IsNaN(b) THEN NaN ELSE Num(Min(a[1], b[1]))

\* Array.prototype.slice(start, end): a negative index counts from the end,
\* NaN is 0
SliceIndex(x, n) ==
    IF IsNaN(x) THEN 0
    ELSE IF x[1] < 0 THEN Max(n + x[1], 0)
    ELSE Min(x[1], n)

\* a slice that hands the numbers over last to first
SliceReversed(s, a, b) ==
    LET from == SliceIndex(a, Len(s))
        to == SliceIndex(b, Len(s))
    IN  IF from >= to THEN <<>> ELSE [p \in 1..(to - from) |-> s[to + 1 - p]]

Slice(s, a, b) ==
    LET from == SliceIndex(a, Len(s))
        to == SliceIndex(b, Len(s))
    IN  IF from >= to THEN <<>> ELSE SubSeq(s, from + 1, to)

----------------------------------------------------------------------------
(* Text: a string is a sequence of one-character strings *)

Digits == {"0", "1", "2", "3", "4", "5", "6", "7", "8", "9"}
Whitespace == {" ", "\t", "\r", "\n"}

\* num.replace(/\D/g, '')
DigitsOnly(s) == SelectIdx(s, {p \in 1..Len(s) : s[p] \in Digits}, 1)

RECURSIVE SplitLines(_)
\* text.split('\n')
SplitLines(s) ==
    IF \A p \in 1..Len(s) : s[p] # "\n" THEN <<s>>
    ELSE LET q == CHOOSE p \in 1..Len(s) :
                      s[p] = "\n" /\ \A o \in 1..(p - 1) : s[o] # "\n"
         IN  <<SubSeq(s, 1, q - 1)>> \o SplitLines(SubSeq(s, q + 1, Len(s)))

\* num.trim()
Trim(s) ==
    LET ink == {p \in 1..Len(s) : s[p] \notin Whitespace}
    IN  IF ink = {} THEN <<>>
        ELSE SubSeq(s, CHOOSE p \in ink : \A o \in ink : p <= o,
                       CHOOSE p \in ink : \A o \in ink : p >= o)

\* .split('\n').map(num => num.trim()).filter(num => num.length > 0)
ParseLines(text) ==
    LET lines == SplitLines(text)
        trimmed == [p \in 1..Len(lines) |-> Trim(lines[p])]
    IN  SelectIdx(trimmed, {p \in 1..Len(trimmed) : Len(trimmed[p]) > 0}, 1)

\* respondedNumbers: the parsed exclusion lines, each reduced to its digits
RespondedNumbers(text) ==
    LET lines == ParseLines(text)
    IN  [p \in 1..Len(lines) |-> DigitsOnly(lines[p])]

\* a search that looks at the first element only
IncludesFirst(s, x) == Len(s) >= 1 /\ s[1] = x

Includes(s, x) == \E p \in 1..Len(s) : s[p] = x

RECURSIVE SpliceFrom(_, _, _)
\* remove the answered numbers from s in place while walking it with an
\* index: the element after a removed one is skipped
SpliceFrom(s, respondedNumbers, p) ==
    IF p > Len(s) THEN s
    ELSE IF Includes(respondedNumbers, DigitsOnly(s[p]))
    THEN SpliceFrom(SubSeq(s, 1, p - 1) \o SubSeq(s, p + 1, Len(s)),
                    respondedNumbers, p + 1)
    ELSE SpliceFrom(s, respondedNumbers, p + 1)

\* a filter that removes in place
ExcludeSplicing(phoneNumbers, respondedNumbers) ==
    SpliceFrom(phoneNumbers, respondedNumbers, 1)

\* phoneNumbers.filter(num => !respondedNumbers.includes(cleanedNum))
Exclude(phoneNumbers, respondedNumbers) ==
    SelectIdx(phoneNumbers,
              {p \in 1..Len(phoneNumbers) :
                  ~Includes(respondedNumbers, DigitsOnly(phoneNumbers[p]))},
              1)

\* numbersToSend: phoneNumbers, filtered when an answered file was uploaded
NumbersToSend(numbersText, answered) ==
    LET phoneNumbers == ParseLines(numbersText)
    IN  IF ~answered.present THEN phoneNumbers
        ELSE Exclude(phoneNumbers, RespondedNumbers(answered.text))

\* chatId of processBatch: the digits of the number, then '@c.us' unless the
\* digits contain '@'
ChatId(number) ==
    LET formattedNumber == DigitsOnly(number)
    IN  IF Includes(formattedNumber, "@") THEN formattedNumber
        ELSE formattedNumber \o <<"@", "c", ".", "u", "s">>

----------------------------------------------------------------------------
(* getRandomInt and retryOperation *)

\* getRandomInt(max): Math.floor(Math.random() * max)
GetRandomInt(max) == 0..(max - 1)

\* the values of getRandomInt(max) the model tries
RandomSamples(max) == {x \in GetRandomInt(max) : x \in {0, max \div 2, max - 1}}

RECURSIVE Pow2(_)
Pow2(e) == IF e <= 0 THEN 1 ELSE 2 * Pow2(e - 1)

\* a delay that does not grow with the attempt
BackoffDelayFlat(baseDelay, attempt) == baseDelay

\* const delay = baseDelay * Math.pow(2, attempt - 1)
BackoffDelay(baseDelay, attempt) == baseDelay * Pow2(attempt - 1)

Undefined == "undefined"

IdleRetry ==
    [maxRetries |-> 0, baseDelay |-> 0, attempt |-> 0, lastError |-> Undefined,
     status |-> "idle"]

\* retryOperation up to the first operation() call: the loop starts at
\* attempt 1, and with maxRetries < 1 the body never runs and lastError,
\* still undefined, is thrown
RetryStart(maxRetries, baseDelay) ==
    [maxRetries |-> maxRetries, baseDelay |-> baseDelay, attempt |-> 1,
     lastError |-> Undefined,
     status |-> IF 1 <= maxRetries THEN "invoked" ELSE "thrown"]

\* return await operation()
RetryResolve(r) == [r EXCEPT !.status = "returned"]

\* a test that lets the last attempt sleep too
IsLastAttemptLate(attempt, maxRetries) == attempt > maxRetries

\* if (attempt === maxRetries) break
IsLastAttempt(attempt, maxRetries) == attempt = maxRetries

\* catch (error): keep it, then break and throw on the last attempt, else sleep
RetryReject(r, error) ==
    [r EXCEPT !.lastError = error,
              !.status = IF IsLastAttempt(r.attempt, r.maxRetries)
                         THEN "thrown" ELSE "sleeping"]

\* setTimeout(resolve, delay + getRandomInt(1000))
RetrySleep(r, jitter) == BackoffDelay(r.baseDelay, r.attempt) + jitter

\* the backoff timer fired: attempt++ and the loop test, then operation() again
RetryWake(r) ==
    [r EXCEPT !.attempt = r.attempt + 1,
              !.status = IF r.attempt + 1 <= r.maxRetries
                         THEN "invoked" ELSE "thrown"]

----------------------------------------------------------------------------
(* Transport handles and the health check *)

NoClient == 0

\* client.info is set when the handle becomes ready and stays set
HasInfo(h) == handles[h].st \in {"ready", "disconnected"}

\* client.pupPage && !client.pupPage.isClosed()
PageOpen(h) == handles[h].st # "closed"

\* isClientHealthy(client)
IsClientHealthy(client) ==
    /\ client # NoClient
    /\ PageOpen(client)
    /\ HasInfo(client)

NotHealthyError == "WhatsApp client is not healthy"
BecameUnhealthyError == "WhatsApp client became unhealthy during sending"
TransientError == "Evaluation failed"
SessionClosedError == "Session closed"
EntryTypeError == "Cannot read properties of undefined"
FilesTypeError == "Cannot read properties of undefined (reading '0')"
CleanupReferenceError == "cleanupFiles is not defined"

----------------------------------------------------------------------------
(* POST /api/send-batch: the request body and the uploaded files *)

SafeSendMaxRetries == 2
SafeSendBaseDelay == 2000
DefaultBatchSize == 10
BatchSizeCap == 15

\* a value of the request body: left out, a text that is no number, a number
Absent == [kind |-> "absent", v |-> 0]
NotANumber == [kind |-> "text", v |-> 0]
Number(v) == [kind |-> "number", v |-> v]

\* const { batchSize = 10 } = req.body
BodyBatchSize(raw) == IF raw.kind = "absent" THEN Number(DefaultBatchSize) ELSE raw

\* parseInt(batchSize): NaN for a text that starts with no number
ParseInt(raw) == IF raw.kind = "number" THEN Num(raw.v) ELSE NaN

\* const actualBatchSize = Math.min(parseInt(batchSize), 15)
ActualBatchSize(raw) == JsMin(ParseInt(BodyBatchSize(raw)), Num(BatchSizeCap))

\* delayMultiplier is kept in thousandths, so that a delay in milliseconds
\* is a whole number: 1000 is the default of 1
DefaultDelayMultiplier == 1000

\* const { delayMultiplier = 1 } = req.body
BodyDelayMultiplier(raw) ==
    IF raw.kind = "absent" THEN Number(DefaultDelayMultiplier) ELSE raw

\* the number a body value is in a product: NaN for a text that is none
ToNumber(raw) == IF raw.kind = "number" THEN Num(raw.v) ELSE NaN

PacingBase == 8
PacingJitterRange == 4
CooldownDelay == 3000
TimeoutMax == 2147483647

\* (8 + getRandomInt(4)) * delayMultiplier * 1000, in milliseconds
PacingDelay(delayMultiplier, jitter) ==
    LET m == ToNumber(delayMultiplier)
    IN  IF IsNaN(m) THEN NaN ELSE Num((PacingBase + jitter) * m[1])

\* the time setTimeout(f, ms) waits: 1 ms unless 1 <= ms <= TIMEOUT_MAX
SetTimeout(ms) ==
    IF IsNaN(ms) \/ ms[1] < 1 \/ ms[1] > TimeoutMax THEN 1 ELSE ms[1]

NoFile == [present |-> FALSE, text |-> <<>>]
File(text) == [present |-> TRUE, text |-> text]

\* the batchSize values of the request body the model tries: left out, not a
\* number, negative, zero, small, above the cap
BatchSizes ==
    {Absent, NotANumber, Number(-1), Number(0), Number(1), Number(2), Number(16)}

NumbersFiles ==
    { NoFile,
      File(<<" ", "\n">>),
      File(<<"1", "\n", "2">>),
      File(<<"1", "1", "\n", "\n", " ", "2", "-", "2", " ", "\n", "3", "@">>) }

AnsweredFiles == {NoFile, File(<<"2", "2", "\n">>)}

Requests ==
    [message : BOOLEAN, batchSize : BatchSizes, numbers : NumbersFiles,
     answered : AnsweredFiles]

\* a request with no body and no file
NoRequest ==
    [message |-> FALSE, batchSize |-> Absent, numbers |-> NoFile,
     answered |-> NoFile]

\* the requests tried where two runs are in progress together: one number
\* with the default batch size, two numbers in batches of one
ConcRequests ==
    { [message |-> TRUE, batchSize |-> Absent, numbers |-> File(<<"1">>),
       answered |-> NoFile],
      [message |-> TRUE, batchSize |-> Number(1),
       numbers |-> File(<<"1", "\n", "2">>), answered |-> NoFile] }

----------------------------------------------------------------------------
(* POST /api/send-batch: the handler *)

SessionId(user, time) == <<user, time>>

Entry(user, total, time) ==
    [user |-> user, total |-> total, processed |-> 0, successful |-> 0,
     failed |-> 0, startTime |-> time]

NoSummary == [total |-> 0, sent |-> 0, failed |-> 0, successRate |-> ""]

Event(type, status) ==
    [type |-> type, status |-> status, total |-> 0, processed |-> 0,
     successful |-> 0, failed |-> 0, currentBatch |-> 0, results |-> <<>>,
     summary |-> NoSummary, details |-> ""]

ProgressEvent(status, total, processed, successful, failed, currentBatch) ==
    [Event("progress", status) EXCEPT
        !.total = total, !.processed = processed, !.successful = successful,
        !.failed = failed, !.currentBatch = currentBatch]

Sent(number) == [number |-> number, status |-> "sent", error |-> ""]
Failed(number, error) == [number |-> number, status |-> "failed", error |-> error]

CountStatus(results, status) ==
    Cardinality({p \in 1..Len(results) : results[p].status = status})

\* (x * 100).toFixed(2) + '%' for x = a / b, in hundredths of a percent
\* rounded to the nearest; NaN for 0 / 0, Infinity for a / 0
Percent(a, b) ==
    IF b = 0 THEN (IF a = 0 THEN "NaN%" ELSE "Infinity%")
    ELSE ToString((a * 10000 * 2 + b) \div (2 * b))

\* summary of the 'complete' event: activeSessions[sessionId]?.successful and
\* ?.failed are undefined when the entry is gone
Summary(total, act, sessionId) ==
    LET live == sessionId \in DOMAIN act
    IN  [total |-> total,
         sent |-> IF live THEN act[sessionId].successful ELSE 0,
         failed |-> IF live THEN act[sessionId].failed ELSE 0,
         successRate |-> IF live THEN Percent(act[sessionId].successful, total)
                         ELSE "NaN%"]

NewRun(user, sessionId) ==
    [user |-> user, sessionId |-> sessionId, req |-> NoRequest,
     client |-> NoClient,
     numbersToSend |-> <<>>, batchSize |-> Absent, actualBatchSize |-> NaN,
     i |-> Num(0),
     batch |-> <<>>, k |-> 0, batchResults |-> <<>>, results |-> <<>>,
     retry |-> IdleRetry, pc |-> "entry", events |-> <<>>, keepAlive |-> TRUE,
     statusCode |-> 200, ended |-> FALSE, thrown |-> ""]

Write(run, event) == [run EXCEPT !.events = Append(@, event)]

\* whether the catch block can see cleanupFiles: it is a const of the try
\* block, so `cleanupFiles?.()` in the catch block is a ReferenceError
CatchSeesCleanupFiles == FALSE

\* catch (error) of the handler: keepAliveCleanup(), cleanupFiles?.(), then
\* delete the entry, write the 'error' event and end the response
CatchBlock(c, error) ==
    LET run == [c.run EXCEPT !.keepAlive = FALSE]
    IN  IF ~CatchSeesCleanupFiles
        THEN [c EXCEPT !.run = [run EXCEPT !.pc = "rejected",
                                           !.thrown = CleanupReferenceError]]
        ELSE [run |-> [Write(run, [Event("error", "") EXCEPT !.details = error])
                          EXCEPT !.pc = "failed", !.ended = TRUE,
                                 !.thrown = error],
              act |-> Del(c.act, run.sessionId)]

\* after the loop: delete the entry, write the 'complete' event, end
Complete(c) ==
    LET act == Del(c.act, c.run.sessionId)
        total == Len(c.run.numbersToSend)
        event == [Event("complete", "") EXCEPT
                     !.results = c.run.results,
                     !.summary = Summary(total, act, c.run.sessionId)]
    IN  [run |-> [Write(c.run, event) EXCEPT !.pc = "completed", !.ended = TRUE],
         act |-> act]

\* a catch clause that records nothing
ProcessBatchCatchDropped(c, error) == [c EXCEPT !.run.pc = "cooldown"]

\* a catch clause that rethrows to the handler after recording
ProcessBatchCatchRethrown(c, error) ==
    CatchBlock([c EXCEPT !.run.batchResults =
                             Append(@, Failed(c.run.batch[c.run.k], error))],
               error)

\* catch (error) of processBatch: record the failure, then the 3 s cooldown
ProcessBatchCatch(c, error) ==
    [c EXCEPT !.run.batchResults =
                  Append(@, Failed(c.run.batch[c.run.k], error)),
              !.run.pc = "cooldown"]

\* operation() threw inside retryOperation
OperationRejected(c, error) ==
    LET r == RetryReject(c.run.retry, error)
        d == [c EXCEPT !.run.retry = r]
    IN  IF r.status = "thrown" THEN ProcessBatchCatch(d, r.lastError)
        ELSE [d EXCEPT !.run.pc = "backoff"]

\* an operation that sends with no check of the health
InvokeOperationUnchecked(c) == [c EXCEPT !.run.pc = "send"]

\* the operation of safeSendMessage: the health check, then client.sendMessage
InvokeOperation(c) ==
    IF ~IsClientHealthy(c.run.client) THEN OperationRejected(c, NotHealthyError)
    ELSE [c EXCEPT !.run.pc = "send"]

\* safeSendMessage(client, chatId, message) for the k-th number of the batch
StartRecipient(c, k) ==
    InvokeOperation([c EXCEPT !.run.k = k,
                              !.run.retry = RetryStart(SafeSendMaxRetries,
                                                       SafeSendBaseDelay)])

\* activeSessions[sessionId].processed += batch.length, and the two counters
UpdateEntry(entry, batch, batchResults) ==
    [entry EXCEPT !.processed = @ + Len(batch),
                  !.successful = @ + CountStatus(batchResults, "sent"),
                  !.failed = @ + CountStatus(batchResults, "failed")]

RECURSIVE StartBatch(_)

\* the for statement's test
LoopTest(c) ==
    IF JsLt(c.run.i, Num(Len(c.run.numbersToSend))) THEN StartBatch(c)
    ELSE Complete(c)

\* the end of a batch with no check of the health
BatchEndUnchecked(c) ==
    LET run == [c.run EXCEPT !.results = @ \o c.run.batchResults]
        sid == run.sessionId
    IN  IF sid \notin DOMAIN c.act
        THEN CatchBlock([c EXCEPT !.run = run], EntryTypeError)
        ELSE
        LET entry == UpdateEntry(c.act[sid], run.batch, run.batchResults)
            act == [c.act EXCEPT ![sid] = entry]
            wrote == Write(run, ProgressEvent("processing",
                               Len(run.numbersToSend), entry.processed,
                               entry.successful, entry.failed, Len(run.batch)))
            d == [run |-> wrote, act |-> act]
        IN  IF JsLt(JsAdd(run.i, run.actualBatchSize),
                    Num(Len(run.numbersToSend)))
            THEN [d EXCEPT !.run.pc = "interbatch"]
            ELSE LoopTest([d EXCEPT !.run.i = JsAdd(run.i, run.actualBatchSize)])

\* processBatch returned: push the results, update the entry, write the
\* progress event, check the health, then the 5 s delay or the next iteration
BatchEnd(c) ==
    LET run == [c.run EXCEPT !.results = @ \o c.run.batchResults]
        sid == run.sessionId
    IN  IF sid \notin DOMAIN c.act
        THEN CatchBlock([c EXCEPT !.run = run], EntryTypeError)
        ELSE
        LET entry == UpdateEntry(c.act[sid], run.batch, run.batchResults)
            act == [c.act EXCEPT ![sid] = entry]
            wrote == Write(run, ProgressEvent("processing",
                               Len(run.numbersToSend), entry.processed,
                               entry.successful, entry.failed, Len(run.batch)))
            d == [run |-> wrote, act |-> act]
        IN  IF ~IsClientHealthy(run.client)
            THEN CatchBlock(d, BecameUnhealthyError)
            ELSE IF JsLt(JsAdd(run.i, run.actualBatchSize),
                         Num(Len(run.numbersToSend)))
            THEN [d EXCEPT !.run.pc = "interbatch"]
            ELSE LoopTest([d EXCEPT !.run.i = JsAdd(run.i, run.actualBatchSize)])

\* one iteration: slice the batch and call processBatch, which suspends at
\* its first send, or returns at once for an empty batch
StartBatch(c) ==
    LET batch == Slice(c.run.numbersToSend, c.run.i,
                       JsAdd(c.run.i, c.run.actualBatchSize))
        d == [c EXCEPT !.run.batch = batch, !.run.batchResults = <<>>,
                       !.run.k = 0]
    IN  IF Len(batch) = 0 THEN BatchEnd(d) ELSE StartRecipient(d, 1)

\* the loop of processBatch after one number: the next one, or return
AfterRecipient(c) ==
    IF c.run.k < Len(c.run.batch) THEN StartRecipient(c, c.run.k + 1)
    ELSE BatchEnd(c)

\* the handler from its first line to its first suspension point
HandleSendBatch(user, req, time, act) ==
    LET run0 == [NewRun(user, SessionId(user, time)) EXCEPT !.req = req]
        client == IF user \in DOMAIN clients THEN clients[user] ELSE NoClient
        c0 == [run |-> run0, act |-> act]
    IN  IF ~IsClientHealthy(client)
        THEN [c0 EXCEPT !.run.keepAlive = FALSE, !.run.statusCode = 400,
                        !.run.ended = TRUE, !.run.pc = "refused"]
        ELSE IF ~req.numbers.present
        THEN CatchBlock([c0 EXCEPT !.run.client = client], FilesTypeError)
        ELSE IF ~req.message
        THEN [c0 EXCEPT !.run.client = client, !.run.keepAlive = FALSE,
                        !.run.statusCode = 400, !.run.ended = TRUE,
                        !.run.pc = "refused"]
        ELSE
        LET numbersToSend == NumbersToSend(req.numbers.text, req.answered)
            total == Len(numbersToSend)
            run1 == [run0 EXCEPT
                        !.client = client,
                        !.numbersToSend = numbersToSend,
                        !.batchSize = BodyBatchSize(req.batchSize),
                        !.actualBatchSize = ActualBatchSize(req.batchSize)]
            run2 == Write(run1, ProgressEvent("starting", total, 0, 0, 0, 0))
        IN  LoopTest([run |-> run2,
                      act |-> Put(act, run0.sessionId, Entry(user, total, time))])

----------------------------------------------------------------------------
(* The state machine *)

NewHandle(user) == [user |-> user, st |-> "init", destroyed |-> FALSE]

IdleLog == [calls |-> 0, sleeps |-> <<>>, errors |-> <<>>]

\* no free-standing call was made
NoCall ==
    [fn |-> "", numbers |-> <<>>, answered |-> NoFile, number |-> <<>>,
     numbersToSend |-> <<>>, chatId |-> <<>>, done |-> FALSE,
     again |-> <<>>, againDone |-> FALSE,
     delayMultiplier |-> Absent, pacing |-> 0, cooldown |-> 0]

\* res.json(body) of an endpoint, for the user of the request; progress is
\* the entry of activeSessions in the body, as a sequence of one, or none
Response(endpoint, user, status, needsQR) ==
    [endpoint |-> endpoint, user |-> user, status |-> status, needsQR |-> needsQR,
     progress |-> <<>>, qr |-> <<>>]

NoResponse == Response("", "", "", FALSE)

Init ==
    /\ now = 0
    /\ handles = <<>>
    /\ clients = EmptyMap
    /\ userQRCodes = EmptyMap
    /\ activeSessions = EmptyMap
    /\ runs = <<>>
    /\ rt = IdleRetry
    /\ rtLog = IdleLog
    /\ call = NoCall
    /\ resp = NoResponse
    /\ alive = TRUE
    /\ revision = LatestRevision
    /\ currentQR = NoPayload

\* whether a request read Date.now() in the current millisecond
NowUsed == \E r \in 1..Len(runs) : runs[r].sessionId[2] = now

\* Date.now() after a timer fired: a timer takes at least a millisecond
AfterTimer == IF NowUsed THEN now + 1 ELSE now

\* a millisecond passes
Tick ==
    /\ alive
    /\ NowUsed
    /\ now' = now + 1
    /\ UNCHANGED <<revision, currentQR, handles, clients, userQRCodes, activeSessions, runs, rt, rtLog, call, resp, alive>>

\* an init-whatsapp that skips the check of the registered handle
InitWhatsappAnew(user, maxHandles) ==
    /\ alive
    /\ Len(handles) < maxHandles
    /\ handles' = Append(handles, NewHandle(user))
    /\ clients' = Put(clients, user, Len(handles) + 1)
    /\ resp' = Response("init-whatsapp", user, "initializing", TRUE)
    /\ UNCHANGED <<revision, currentQR, now, userQRCodes, activeSessions, runs, rt, rtLog, call, alive>>

\* POST /api/init-whatsapp
InitWhatsapp(user, maxHandles) ==
    /\ alive
    /\ IF user \in DOMAIN clients /\ IsClientHealthy(clients[user])
       THEN /\ resp' = Response("init-whatsapp", user, "ready", FALSE)
            /\ UNCHANGED <<handles, clients>>
       ELSE /\ Len(handles) < maxHandles
            /\ handles' = Append(handles, NewHandle(user))
            /\ clients' = Put(clients, user, Len(handles) + 1)
            /\ resp' = Response("init-whatsapp", user, "initializing", TRUE)
    /\ UNCHANGED <<revision, currentQR, now, userQRCodes, activeSessions, runs, rt, rtLog, call, alive>>

\* client.on('qr')
OnQr(h) ==
    /\ alive
    /\ handles[h].st = "init"
    /\ userQRCodes' = Put(userQRCodes, handles[h].user, h)
    /\ UNCHANGED <<revision, currentQR, now, handles, clients, activeSessions, runs, rt, rtLog, call, resp, alive>>

\* client.on('ready')
OnReady(h) ==
    /\ alive
    /\ handles[h].st = "init"
    /\ handles' = [handles EXCEPT ![h].st = "ready"]
    /\ clients' = Put(clients, handles[h].user, h)
    /\ userQRCodes' = Del(userQRCodes, handles[h].user)
    /\ UNCHANGED <<revision, currentQR, now, activeSessions, runs, rt, rtLog, call, resp, alive>>

\* client.on('auth_failure')
OnAuthFailure(h) ==
    /\ alive
    /\ handles[h].st = "init"
    /\ userQRCodes' = Del(userQRCodes, handles[h].user)
    /\ UNCHANGED <<revision, currentQR, now, handles, clients, activeSessions, runs, rt, rtLog, call, resp, alive>>

\* client.on('disconnected')
OnDisconnected(h) ==
    /\ alive
    /\ handles[h].st = "ready"
    /\ handles' = [handles EXCEPT ![h].st = "disconnected"]
    /\ clients' = Del(clients, handles[h].user)
    /\ userQRCodes' = Del(userQRCodes, handles[h].user)
    /\ UNCHANGED <<revision, currentQR, now, activeSessions, runs, rt, rtLog, call, resp, alive>>

\* the browser page of a handle closes: a crash, or the end of destroy()
PageClosed(h) ==
    /\ alive
    /\ handles[h].st # "closed"
    /\ handles' = [handles EXCEPT ![h].st = "closed"]
    /\ UNCHANGED <<revision, currentQR, now, clients, userQRCodes, activeSessions, runs, rt, rtLog, call, resp, alive>>

\* POST /api/logout
Logout(user) ==
    /\ alive
    /\ IF user \in DOMAIN clients
       THEN /\ handles' = [handles EXCEPT ![clients[user]].destroyed = TRUE]
            /\ clients' = Del(clients, user)
       ELSE UNCHANGED <<handles, clients>>
    /\ userQRCodes' = Del(userQRCodes, user)
    /\ resp' = Response("logout", user, "success", FALSE)
    /\ UNCHANGED <<revision, currentQR, now, activeSessions, runs, rt, rtLog, call, alive>>

\* qrcode.toDataURL(qr): the image of the payload as a data URL
DataURL(qr) == <<"data:image/png;base64", qr>>

\* GET /api/qr
GetQr(user) ==
    /\ alive
    /\ resp' = IF user \in DOMAIN userQRCodes
               THEN [Response("qr", user, "ok", FALSE)
                        EXCEPT !.qr = DataURL(userQRCodes[user])]
               ELSE Response("qr", user, "ok", FALSE)
    /\ UNCHANGED <<revision, currentQR, now, handles, clients, userQRCodes, activeSessions, runs, rt, rtLog, call, alive>>

\* part_002, POST /api/init-whatsapp: the registered handle is tested for
\* its info only
InitWhatsappFirst(user, maxHandles) ==
    /\ alive
    /\ IF user \in DOMAIN clients /\ HasInfo(clients[user])
       THEN /\ resp' = Response("init-whatsapp", user, "ready", FALSE)
            /\ UNCHANGED <<handles, clients>>
       ELSE /\ Len(handles) < maxHandles
            /\ handles' = Append(handles, NewHandle(user))
            /\ clients' = Put(clients, user, Len(handles) + 1)
            /\ resp' = Response("init-whatsapp", user, "initializing", TRUE)
    /\ UNCHANGED <<revision, currentQR, now, userQRCodes, activeSessions, runs, rt, rtLog, call, alive>>

\* part_002, client.on('qr')
OnQrFirst(h) ==
    /\ alive
    /\ handles[h].st = "init"
    /\ currentQR' = h
    /\ UNCHANGED <<revision, now, handles, clients, userQRCodes, activeSessions, runs, rt, rtLog, call, resp, alive>>

\* part_002, client.on('ready')
OnReadyFirst(h) ==
    /\ alive
    /\ handles[h].st = "init"
    /\ handles' = [handles EXCEPT ![h].st = "ready"]
    /\ clients' = Put(clients, handles[h].user, h)
    /\ currentQR' = NoPayload
    /\ UNCHANGED <<revision, now, userQRCodes, activeSessions, runs, rt, rtLog, call, resp, alive>>

\* part_002, client.on('auth_failure')
OnAuthFailureFirst(h) ==
    /\ alive
    /\ handles[h].st = "init"
    /\ currentQR' = NoPayload
    /\ UNCHANGED <<revision, now, handles, clients, userQRCodes, activeSessions, runs, rt, rtLog, call, resp, alive>>

\* part_002, GET /api/qr
GetQrFirst(user) ==
    /\ alive
    /\ resp' = IF currentQR # NoPayload
               THEN [Response("qr", user, "ok", FALSE)
                        EXCEPT !.qr = DataURL(currentQR)]
               ELSE Response("qr", user, "ok", FALSE)
    /\ UNCHANGED <<revision, currentQR, now, handles, clients, userQRCodes, activeSessions, runs, rt, rtLog, call, alive>>

\* part_002, POST /api/logout
LogoutFirst(user) ==
    /\ alive
    /\ IF user \in DOMAIN clients
       THEN /\ handles' = [handles EXCEPT ![clients[user]].destroyed = TRUE]
            /\ clients' = Del(clients, user)
       ELSE UNCHANGED <<handles, clients>>
    /\ resp' = Response("logout", user, "success", FALSE)
    /\ UNCHANGED <<revision, currentQR, now, userQRCodes, activeSessions, runs, rt, rtLog, call, alive>>

\* GET /api/session-progress/:sessionId, asked by a logged-in user
SessionProgress(user, sessionId) ==
    /\ alive
    /\ resp' = IF sessionId \notin DOMAIN activeSessions
               THEN Response("session-progress", user, "not found", FALSE)
               ELSE [Response("session-progress", user, "ok", FALSE)
                        EXCEPT !.progress = <<activeSessions[sessionId]>>]
    /\ UNCHANGED <<revision, currentQR, now, handles, clients, userQRCodes, activeSessions, runs, rt, rtLog, call, alive>>

\* POST /api/send-batch, up to the handler's first suspension point
SendBatch(user, req, maxRuns) ==
    /\ alive
    /\ Len(runs) < maxRuns
    /\ LET c == HandleSendBatch(user, req, now, activeSessions)
       IN  /\ runs' = Append(runs, c.run)
           /\ activeSessions' = c.act
    /\ UNCHANGED <<revision, currentQR, now, handles, clients, userQRCodes, rt, rtLog, call, resp, alive>>

Ctx(r) == [run |-> runs[r], act |-> activeSessions]

\* the handler of run r goes on to its next suspension point
Resume(r, c) ==
    /\ runs' = [runs EXCEPT ![r] = c.run]
    /\ activeSessions' = c.act

\* a resolved send that goes on to the next number with no pacing delay
SendResolvesUnpaced(r) ==
    /\ alive
    /\ runs[r].pc = "send"
    /\ handles[runs[r].client].st = "ready"
    /\ LET run == runs[r]
           sent == [run EXCEPT !.retry = RetryResolve(run.retry),
                               !.batchResults = Append(@, Sent(run.batch[run.k]))]
       IN  Resume(r, AfterRecipient([run |-> sent, act |-> activeSessions]))
    /\ UNCHANGED <<revision, currentQR, now, handles, clients, userQRCodes, rt, rtLog, call, resp, alive>>

\* client.sendMessage resolved
SendResolves(r) ==
    /\ alive
    /\ runs[r].pc = "send"
    /\ handles[runs[r].client].st = "ready"
    /\ LET run == runs[r]
           sent == [run EXCEPT !.retry = RetryResolve(run.retry),
                               !.batchResults = Append(@, Sent(run.batch[run.k])),
                               !.pc = "pacing"]
       IN  Resume(r, [run |-> sent, act |-> activeSessions])
    /\ UNCHANGED <<revision, currentQR, now, handles, clients, userQRCodes, rt, rtLog, call, resp, alive>>

\* the errors client.sendMessage can reject with: a page error while the page
\* is open, a closed session once it is closed
SendErrors(h) ==
    IF handles[h].st = "closed" THEN {SessionClosedError} ELSE {TransientError}

\* client.sendMessage rejected
SendRejects(r) ==
    /\ alive
    /\ runs[r].pc = "send"
    /\ \E error \in SendErrors(runs[r].client) :
           Resume(r, OperationRejected(Ctx(r), error))
    /\ UNCHANGED <<revision, currentQR, now, handles, clients, userQRCodes, rt, rtLog, call, resp, alive>>

\* the backoff timer of retryOperation fired
BackoffFires(r) ==
    /\ alive
    /\ runs[r].pc = "backoff"
    /\ LET woke == [Ctx(r) EXCEPT !.run.retry = RetryWake(runs[r].retry)]
       IN  Resume(r, InvokeOperation(woke))
    /\ now' = AfterTimer
    /\ UNCHANGED <<revision, currentQR, handles, clients, userQRCodes, rt, rtLog, call, resp, alive>>

\* the pacing timer after a sent message fired
PacingFires(r) ==
    /\ alive
    /\ runs[r].pc = "pacing"
    /\ Resume(r, AfterRecipient(Ctx(r)))
    /\ now' = AfterTimer
    /\ UNCHANGED <<revision, currentQR, handles, clients, userQRCodes, rt, rtLog, call, resp, alive>>

\* the 3 s timer after a failed message fired
CooldownFires(r) ==
    /\ alive
    /\ runs[r].pc = "cooldown"
    /\ Resume(r, AfterRecipient(Ctx(r)))
    /\ now' = AfterTimer
    /\ UNCHANGED <<revision, currentQR, handles, clients, userQRCodes, rt, rtLog, call, resp, alive>>

\* the number of iterations the loop of run r has made
Batches(run) == Len(run.events) - 1

\* the 5 s timer between two batches fired: i += actualBatchSize and the test
InterbatchFires(r) ==
    /\ alive
    /\ runs[r].pc = "interbatch"
    /\ Batches(runs[r]) < MaxBatches
    /\ LET run == runs[r]
           next == [Ctx(r) EXCEPT !.run.i = JsAdd(run.i, run.actualBatchSize)]
       IN  Resume(r, LoopTest(next))
    /\ now' = AfterTimer
    /\ UNCHANGED <<revision, currentQR, handles, clients, userQRCodes, rt, rtLog, call, resp, alive>>

\* a handler that was suspended when the process ended never goes on
Killed(run) ==
    IF run.pc \in {"send", "backoff", "pacing", "cooldown", "interbatch"}
    THEN [run EXCEPT !.pc = "killed"]
    ELSE run

\* the catch block of run r threw, so the promise of its async handler is
\* rejected and nothing handles it: node (15 and later, unless started with
\* --unhandled-rejections=warn) raises it as an uncaught exception and the
\* process ends, with its tables, its handlers and its browsers
UnhandledRejection(r) ==
    /\ alive
    /\ runs[r].pc = "rejected"
    /\ alive' = FALSE
    /\ clients' = EmptyMap
    /\ userQRCodes' = EmptyMap
    /\ activeSessions' = EmptyMap
    /\ handles' = [h \in 1..Len(handles) |-> [handles[h] EXCEPT !.st = "closed"]]
    /\ runs' = [q \in 1..Len(runs) |-> Killed(runs[q])]
    /\ UNCHANGED <<revision, currentQR, now, rt, rtLog, call, resp>>

Server(users, requests, maxRuns, maxHandles) ==
    \/ Tick
    \/ \E u \in users : InitWhatsapp(u, maxHandles)
    \/ \E h \in 1..Len(handles) : OnQr(h)
    \/ \E h \in 1..Len(handles) : OnReady(h)
    \/ \E h \in 1..Len(handles) : OnAuthFailure(h)
    \/ \E h \in 1..Len(handles) : OnDisconnected(h)
    \/ \E h \in 1..Len(handles) : PageClosed(h)
    \/ \E u \in users : Logout(u)
    \/ \E u \in users : \E req \in requests : SendBatch(u, req, maxRuns)
    \/ \E r \in 1..Len(runs) : SendResolves(r)
    \/ \E r \in 1..Len(runs) : SendRejects(r)
    \/ \E r \in 1..Len(runs) : BackoffFires(r)
    \/ \E r \in 1..Len(runs) : PacingFires(r)
    \/ \E r \in 1..Len(runs) : CooldownFires(r)
    \/ \E r \in 1..Len(runs) : InterbatchFires(r)
    \/ \E r \in 1..Len(runs) : UnhandledRejection(r)

Next == Server(OneUser, Requests, MaxRuns, MaxHandles)

\* one user and one request at a time, with every request of Requests
Spec == Init /\ [][Next]_vars

\* the steps of the server that runs depend on
NextConc ==
    \/ Tick
    \/ \E u \in Users : InitWhatsapp(u, MaxHandles)
    \/ \E h \in 1..Len(handles) : OnReady(h)
    \/ \E h \in 1..Len(handles) : PageClosed(h)
    \/ \E u \in Users : \E req \in ConcRequests : SendBatch(u, req, MaxConcRuns)
    \/ \E r \in 1..Len(runs) : SendResolves(r)
    \/ \E r \in 1..Len(runs) : SendRejects(r)
    \/ \E r \in 1..Len(runs) : BackoffFires(r)
    \/ \E r \in 1..Len(runs) : PacingFires(r)
    \/ \E r \in 1..Len(runs) : CooldownFires(r)
    \/ \E r \in 1..Len(runs) : InterbatchFires(r)
    \/ \E r \in 1..Len(runs) : UnhandledRejection(r)

\* two users, and requests handled while others are in progress
SpecConc == Init /\ [][NextConc]_vars

\* a session id that no run has
UnknownSessionId == SessionId("", 0)

\* the session ids a poll is tried with: those of the runs, and another
PolledIds == {runs[r].sessionId : r \in 1..Len(runs)} \cup {UnknownSessionId}

\* one run at a time, and polls of its progress by any user
NextProgress ==
    \/ \E u \in Users : InitWhatsapp(u, MaxHandles)
    \/ \E h \in 1..Len(handles) : OnReady(h)
    \/ \E u \in Users : \E req \in ConcRequests : SendBatch(u, req, MaxRuns)
    \/ \E r \in 1..Len(runs) : SendResolves(r)
    \/ \E r \in 1..Len(runs) : SendRejects(r)
    \/ \E r \in 1..Len(runs) : BackoffFires(r)
    \/ \E r \in 1..Len(runs) : PacingFires(r)
    \/ \E r \in 1..Len(runs) : CooldownFires(r)
    \/ \E r \in 1..Len(runs) : InterbatchFires(r)
    \/ \E u \in Users : \E sessionId \in PolledIds : SessionProgress(u, sessionId)

\* two users, one run, and the progress endpoint
SpecProgress == Init /\ [][NextProgress]_vars

\* the accounts of part_002 when a second one is added to `users`
AccountsOpen(rev) == Users

\* the users who can log in: part_002 has the one account of `users` and no
\* way to register another, the later revisions let anyone register
Accounts(rev) == IF rev = FirstRevision THEN OneUser ELSE Users

InitQr ==
    /\ now = 0
    /\ handles = <<>>
    /\ clients = EmptyMap
    /\ userQRCodes = EmptyMap
    /\ activeSessions = EmptyMap
    /\ runs = <<>>
    /\ rt = IdleRetry
    /\ rtLog = IdleLog
    /\ call = NoCall
    /\ resp = NoResponse
    /\ alive = TRUE
    /\ revision \in Revisions
    /\ currentQR = NoPayload

\* pairing in the revision that runs: init-whatsapp, the events of the
\* handles, logout, and the polls of /api/qr
NextQr ==
    \/ \E u \in Accounts(revision) :
           revision = LatestRevision /\ InitWhatsapp(u, MaxHandles)
    \/ \E h \in 1..Len(handles) : revision = LatestRevision /\ OnQr(h)
    \/ \E h \in 1..Len(handles) : revision = LatestRevision /\ OnReady(h)
    \/ \E h \in 1..Len(handles) : revision = LatestRevision /\ OnAuthFailure(h)
    \/ \E h \in 1..Len(handles) : revision = LatestRevision /\ OnDisconnected(h)
    \/ \E u \in Accounts(revision) : revision = LatestRevision /\ Logout(u)
    \/ \E u \in Accounts(revision) : revision = LatestRevision /\ GetQr(u)
    \/ \E u \in Accounts(revision) :
           revision = FirstRevision /\ InitWhatsappFirst(u, MaxHandles)
    \/ \E h \in 1..Len(handles) : revision = FirstRevision /\ OnQrFirst(h)
    \/ \E h \in 1..Len(handles) : revision = FirstRevision /\ OnReadyFirst(h)
    \/ \E h \in 1..Len(handles) : revision = FirstRevision /\ OnAuthFailureFirst(h)
    \/ \E u \in Accounts(revision) : revision = FirstRevision /\ LogoutFirst(u)
    \/ \E u \in Accounts(revision) : revision = FirstRevision /\ GetQrFirst(u)

\* pairing and /api/qr, in each revision
SpecQr == InitQr /\ [][NextQr]_vars

\* the session endpoints and the events of the handles, with no send-batch
NextSession ==
    \/ \E u \in Users : InitWhatsapp(u, MaxHandles)
    \/ \E h \in 1..Len(handles) : OnQr(h)
    \/ \E h \in 1..Len(handles) : OnReady(h)
    \/ \E h \in 1..Len(handles) : OnAuthFailure(h)
    \/ \E h \in 1..Len(handles) : OnDisconnected(h)
    \/ \E h \in 1..Len(handles) : PageClosed(h)
    \/ \E u \in Users : Logout(u)

\* two users and their sessions
SpecSession == Init /\ [][NextSession]_vars

\* the requests tried where every send returns and every timer fires: two
\* and three numbers, with every batchSize of BatchSizes
LiveRequests ==
    { req \in Requests :
        /\ req.message
        /\ ~req.answered.present
        /\ req.numbers.present
        /\ Len(req.numbers.text) >= 3 }

\* what the event loop does for run r: the promise of a send settles, a
\* timer fires
RunStep(r) ==
    \/ SendResolves(r)
    \/ SendRejects(r)
    \/ BackoffFires(r)
    \/ PacingFires(r)
    \/ CooldownFires(r)
    \/ InterbatchFires(r)

NextLive ==
    \/ \E u \in OneUser : InitWhatsapp(u, MaxHandles)
    \/ \E h \in 1..Len(handles) : OnReady(h)
    \/ \E h \in 1..Len(handles) : PageClosed(h)
    \/ \E u \in OneUser : \E req \in LiveRequests : SendBatch(u, req, MaxRuns)
    \/ \E r \in 1..Len(runs) : SendResolves(r)
    \/ \E r \in 1..Len(runs) : SendRejects(r)
    \/ \E r \in 1..Len(runs) : BackoffFires(r)
    \/ \E r \in 1..Len(runs) : PacingFires(r)
    \/ \E r \in 1..Len(runs) : CooldownFires(r)
    \/ \E r \in 1..Len(runs) : InterbatchFires(r)
    \/ \E r \in 1..Len(runs) : UnhandledRejection(r)

\* every send in flight returns or throws, and every timer set fires
EventLoopFairness ==
    \A r \in 1..MaxRuns : WF_vars(r <= Len(runs) /\ RunStep(r))

\* one run at a time, under a fair event loop
SpecLive == Init /\ [][NextLive]_vars /\ EventLoopFairness

----------------------------------------------------------------------------
(* retryOperation on its own *)

BaseDelays == {1, 999, 1000, 2000}
Errors == {"e1", "e2"}

InitRetry ==
    /\ now = 0
    /\ handles = <<>>
    /\ clients = EmptyMap
    /\ userQRCodes = EmptyMap
    /\ activeSessions = EmptyMap
    /\ runs = <<>>
    /\ call = NoCall
    /\ resp = NoResponse
    /\ alive = TRUE
    /\ revision = LatestRevision
    /\ currentQR = NoPayload
    /\ \E maxRetries \in 0..MaxRetriesArg : \E baseDelay \in BaseDelays :
           /\ rt = RetryStart(maxRetries, baseDelay)
           /\ rtLog = [IdleLog EXCEPT !.calls = IF rt.status = "invoked"
                                                THEN 1 ELSE 0]

\* operation() resolved
OperationResolves ==
    /\ rt.status = "invoked"
    /\ rt' = RetryResolve(rt)
    /\ UNCHANGED <<revision, currentQR, now, handles, clients, userQRCodes, activeSessions, runs, rtLog, call, resp, alive>>

\* operation() rejected: the catch clause, up to the sleep or the throw
OperationRejects(error, jitter) ==
    /\ rt.status = "invoked"
    /\ rt' = RetryReject(rt, error)
    /\ rtLog' = [rtLog EXCEPT
                    !.errors = Append(@, error),
                    !.sleeps = IF rt'.status = "sleeping"
                               THEN Append(@, RetrySleep(rt, jitter)) ELSE @]
    /\ UNCHANGED <<revision, currentQR, now, handles, clients, userQRCodes, activeSessions, runs, call, resp, alive>>

\* the backoff timer fired
RetryTimerFires ==
    /\ rt.status = "sleeping"
    /\ rt' = RetryWake(rt)
    /\ rtLog' = [rtLog EXCEPT !.calls = IF rt'.status = "invoked" THEN @ + 1 ELSE @]
    /\ UNCHANGED <<revision, currentQR, now, handles, clients, userQRCodes, activeSessions, runs, call, resp, alive>>

NextRetry ==
    \/ OperationResolves
    \/ \E error \in Errors : \E jitter \in RandomSamples(1000) :
           OperationRejects(error, jitter)
    \/ RetryTimerFires

SpecRetry == InitRetry /\ [][NextRetry]_vars

----------------------------------------------------------------------------
(* The list filter and the chat id on their own *)

\* contents of a numbers file: '', '22\n2-2\n1', ' 1 \n\n22\r\n3', 'a\n1',
\* '1\n2\n1', '2\n12\n21', '+1 2\n12', '3@\n3'
NumbersTexts ==
    { <<>>,
      <<"2", "2", "\n", "2", "-", "2", "\n", "1">>,
      <<" ", "1", " ", "\n", "\n", "2", "2", "\r", "\n", "3">>,
      <<"a", "\n", "1">>,
      <<"1", "\n", "2", "\n", "1">>,
      <<"2", "\n", "1", "2", "\n", "2", "1">>,
      <<"+", "1", " ", "2", "\n", "1", "2">>,
      <<"3", "@", "\n", "3">> }

\* the answered file: none, '', '22\n', '(2)2', 'x\n 1', '3\n1\r\n', '12\n2'
AnsweredTexts ==
    { NoFile,
      File(<<>>),
      File(<<"2", "2", "\n">>),
      File(<<"(", "2", ")", "2">>),
      File(<<"x", "\n", " ", "1">>),
      File(<<"3", "\n", "1", "\r", "\n">>),
      File(<<"1", "2", "\n", "2">>) }

\* numbers handed to processBatch: '1', '2-2', '+1 2', 'a', '3@', '3@c.us',
\* '3@g.us', '@'
RawNumbers ==
    { <<"1">>,
      <<"2", "-", "2">>,
      <<"+", "1", " ", "2">>,
      <<"a">>,
      <<"3", "@">>,
      <<"3", "@", "c", ".", "u", "s">>,
      <<"3", "@", "g", ".", "u", "s">>,
      <<"@">> }

\* delayMultiplier of the request body, in thousandths: none, 'abc', '0',
\* '0.25', '0.375', '0.5', '1', '2', '-1'
DelayMultipliers ==
    { Absent, NotANumber, Number(0), Number(250), Number(375), Number(500),
      Number(1000), Number(2000), Number(0 - 1000) }

InitPure ==
    /\ now = 0
    /\ handles = <<>>
    /\ clients = EmptyMap
    /\ userQRCodes = EmptyMap
    /\ activeSessions = EmptyMap
    /\ runs = <<>>
    /\ rt = IdleRetry
    /\ rtLog = IdleLog
    /\ resp = NoResponse
    /\ alive = TRUE
    /\ revision = LatestRevision
    /\ currentQR = NoPayload
    /\ \/ \E numbers \in NumbersTexts : \E answered \in AnsweredTexts :
              call = [NoCall EXCEPT !.fn = "numbersToSend", !.numbers = numbers,
                                    !.answered = answered]
       \/ \E number \in RawNumbers :
              call = [NoCall EXCEPT !.fn = "chatId", !.number = number]
       \/ \E delayMultiplier \in DelayMultipliers :
              call = [NoCall EXCEPT !.fn = "processBatch",
                                    !.delayMultiplier = delayMultiplier]

\* lines 329-355: the send list of the two uploaded texts
CallNumbersToSend ==
    /\ call.fn = "numbersToSend"
    /\ ~call.done
    /\ call' = [call EXCEPT !.numbersToSend = NumbersToSend(call.numbers, call.answered),
                            !.done = TRUE]
    /\ UNCHANGED <<revision, currentQR, now, handles, clients, userQRCodes, activeSessions, runs, rt,
                   rtLog, resp, alive>>

\* lines 462-465: the chat id of a number
CallChatId ==
    /\ call.fn = "chatId"
    /\ ~call.done
    /\ call' = [call EXCEPT !.chatId = ChatId(call.number), !.done = TRUE]
    /\ UNCHANGED <<revision, currentQR, now, handles, clients, userQRCodes, activeSessions, runs, rt,
                   rtLog, resp, alive>>

\* lines 349-352 once more, on the list they gave, with the same answered
\* numbers
CallExcludeAgain ==
    /\ call.fn = "numbersToSend"
    /\ call.done
    /\ ~call.againDone
    /\ call' = [call EXCEPT
                    !.again = IF ~call.answered.present THEN call.numbersToSend
                              ELSE Exclude(call.numbersToSend,
                                           RespondedNumbers(call.answered.text)),
                    !.againDone = TRUE]
    /\ UNCHANGED <<revision, currentQR, now, handles, clients, userQRCodes, activeSessions, runs, rt,
                   rtLog, resp, alive>>

\* lines 471-473 and 484: the two timers processBatch sets after a number
CallProcessBatchTimers(jitter) ==
    /\ call.fn = "processBatch"
    /\ ~call.done
    /\ call' = [call EXCEPT
                    !.pacing = SetTimeout(PacingDelay(
                                   BodyDelayMultiplier(call.delayMultiplier),
                                   jitter)),
                    !.cooldown = SetTimeout(Num(CooldownDelay)),
                    !.done = TRUE]
    /\ UNCHANGED <<revision, currentQR, now, handles, clients, userQRCodes, activeSessions, runs, rt,
                   rtLog, resp, alive>>

NextPure ==
    \/ CallNumbersToSend
    \/ CallChatId
    \/ CallExcludeAgain
    \/ \E jitter \in RandomSamples(PacingJitterRange) : CallProcessBatchTimers(jitter)

SpecPure == InitPure /\ [][NextPure]_vars

----------------------------------------------------------------------------
(* Vocabulary of the properties *)

RunIds == 1..Len(runs)

\* the request passed the handler's checks: its 'starting' event was written
Accepted(run) == run.events # <<>>

\* the handler has run to its end, or has thrown out of its catch block
Stopped(run) == run.pc \in {"completed", "failed", "rejected"}

Aborted(run) == run.pc \in {"failed", "rejected"}

InBatch(run) == run.pc \in {"send", "backoff", "pacing", "cooldown"}

\* every outcome recorded so far, those of the batch in progress included
AllResults(run) ==
    IF InBatch(run) THEN run.results \o run.batchResults ELSE run.results

LastEvent(run) == run.events[Len(run.events)]

\* the handler is suspended at a send or at a timer
InProgress(run) == InBatch(run) \/ run.pc = "interbatch"

\* f[k] as a sequence of one element, empty when f has no k
Lookup(f, k) == IF k \in DOMAIN f THEN <<f[k]>> ELSE <<>>

Terminal(event) == event.type \in {"complete", "error"}

----------------------------------------------------------------------------
(* C1 *)

\* C1: in every entry of activeSessions, and in every progress event written,
\* processed = successful + failed
C1_ProcessedIsSum ==
    /\ \A sid \in DOMAIN activeSessions :
           activeSessions[sid].processed =
               activeSessions[sid].successful + activeSessions[sid].failed
    /\ \A r \in RunIds : \A p \in 1..Len(runs[r].events) :
           runs[r].events[p].type = "progress" =>
               runs[r].events[p].processed =
                   runs[r].events[p].successful + runs[r].events[p].failed

\* a live entry that counts sent and failed numbers after two batches
C1_Witness ==
    \E r \in RunIds :
        /\ runs[r].sessionId \in DOMAIN activeSessions
        /\ Len(runs[r].events) >= 3
        /\ activeSessions[runs[r].sessionId].successful >= 1
        /\ activeSessions[runs[r].sessionId].failed >= 1

----------------------------------------------------------------------------
(* C2 *)

\* C2: the summary of the 'complete' event has total = the number of
\* recipients, sent and failed = the numbers of results with that status, and
\* successRate = sent / total as a percentage
C2_SummaryCounts ==
    \A r \in RunIds :
        runs[r].pc = "completed" =>
            LET total == Len(runs[r].numbersToSend)
                sent == CountStatus(runs[r].results, "sent")
            IN  LastEvent(runs[r]).summary =
                    [total |-> total, sent |-> sent,
                     failed |-> CountStatus(runs[r].results, "failed"),
                     successRate |-> Percent(sent, total)]

----------------------------------------------------------------------------
(* C3 *)

\* C3: a run that has stopped has ended its response, and the last event of
\* its stream, and no other, is a 'complete' or an 'error' event
C3_TerminalEvent ==
    \A r \in RunIds :
        (Accepted(runs[r]) /\ Stopped(runs[r])) =>
            /\ runs[r].ended
            /\ Terminal(LastEvent(runs[r]))
            /\ \A p \in 1..(Len(runs[r].events) - 1) : ~Terminal(runs[r].events[p])

----------------------------------------------------------------------------
(* C4 *)

\* C4: the last event of an aborted run carries the results recorded so far
\* and the numbers of sent and failed ones
C4_AbortCarriesPartial ==
    \A r \in RunIds :
        (Accepted(runs[r]) /\ Aborted(runs[r])) =>
            /\ LastEvent(runs[r]).type = "error"
            /\ LastEvent(runs[r]).results = runs[r].results
            /\ LastEvent(runs[r]).successful = CountStatus(runs[r].results, "sent")
            /\ LastEvent(runs[r]).failed = CountStatus(runs[r].results, "failed")

----------------------------------------------------------------------------
(* C5 *)

\* C5: every entry of activeSessions is the entry of a run that has not
\* stopped: the entry of a run that completed or aborted is gone
C5_NoEntryOfEndedRun ==
    \A sid \in DOMAIN activeSessions :
        \E r \in RunIds : runs[r].sessionId = sid /\ ~Stopped(runs[r])

----------------------------------------------------------------------------
(* C6 *)

\* C6: when the k-th number (k > 1), after k-1 sent ones, fails as 'not
\* healthy', it is the last outcome of the run and no later number is
\* attempted: the run only sleeps its cooldown or has aborted
C6_NotHealthyEndsRun ==
    \A r \in RunIds :
        LET res == AllResults(runs[r])
        IN  \A k \in 2..Len(res) :
                (/\ res[k].error = NotHealthyError
                 /\ \A p \in 1..(k - 1) : res[p].status = "sent")
                => /\ Len(res) = k
                   /\ CountStatus(res, "sent") = k - 1
                   /\ runs[r].pc \in {"cooldown", "failed", "rejected"}

----------------------------------------------------------------------------
(* C7 *)

\* the send of run r is rejected on the last attempt with a page error
TransientFailureStep(r) ==
    /\ runs[r].pc = "send"
    /\ IsLastAttempt(runs[r].retry.attempt, runs[r].retry.maxRetries)
    /\ runs'[r].retry.lastError = TransientError
    /\ runs'[r].retry.status = "thrown"

\* the cooldown of run r after a page error ends
AfterTransientStep(r) ==
    /\ runs[r].pc = "cooldown"
    /\ runs[r].retry.lastError = TransientError
    /\ runs'[r] # runs[r]

\* C7: a send that fails with a page error on its last attempt records one
\* 'failed' outcome with that error and the run sleeps its cooldown; after it
\* the run goes on with the next number of the batch, and at the end of the
\* batch it stops only when the handle is unhealthy or its entry is gone
C7_TransientStep ==
    \A r \in RunIds :
        /\ TransientFailureStep(r) =>
               /\ runs'[r].batchResults =
                      Append(runs[r].batchResults,
                             Failed(runs[r].batch[runs[r].k], TransientError))
               /\ runs'[r].results = runs[r].results
               /\ runs'[r].pc = "cooldown"
               /\ ~runs'[r].ended
        /\ AfterTransientStep(r) =>
               IF runs[r].k < Len(runs[r].batch)
               THEN /\ runs'[r].k = runs[r].k + 1
                    /\ runs'[r].pc \in {"send", "backoff"}
                    /\ runs'[r].batchResults = runs[r].batchResults
               ELSE /\ runs'[r].results = runs[r].results \o runs[r].batchResults
                    /\ Aborted(runs'[r]) =>
                           \/ ~IsClientHealthy(runs[r].client)
                           \/ runs[r].sessionId \notin DOMAIN activeSessions

C7_TransientFailureGoesOn == [][C7_TransientStep]_vars

\* a run recorded a page-error failure and then sent to the next number
C7_Witness ==
    \E r \in RunIds : \E p \in 1..(Len(AllResults(runs[r])) - 1) :
        /\ AllResults(runs[r])[p].error = TransientError
        /\ AllResults(runs[r])[p + 1].status = "sent"

----------------------------------------------------------------------------
(* C8 *)

\* C8: processed of a live entry never exceeds its total
C8_ProcessedWithinTotal ==
    \A sid \in DOMAIN activeSessions :
        activeSessions[sid].processed <= activeSessions[sid].total

\* C8: processed of an entry that stays in the table never decreases
C8_ProcessedMonotoneStep ==
    \A sid \in (DOMAIN activeSessions) \cap (DOMAIN activeSessions') :
        activeSessions'[sid].processed >= activeSessions[sid].processed

\* C8: in every state processed <= total, and no step decreases processed
C8_ProcessedBounded ==
    [](C8_ProcessedWithinTotal) /\ [][C8_ProcessedMonotoneStep]_vars

----------------------------------------------------------------------------
(* C9 *)

\* C9: retryOperation with maxRetries >= 1 invokes the operation at most
\* maxRetries times; it returns after k + 1 invocations when the first k <
\* maxRetries failed; it throws after maxRetries failed invocations, the
\* error of the last one, having slept only between invocations
C9_RetryBudget ==
    rt.maxRetries >= 1 =>
        /\ rtLog.calls <= rt.maxRetries
        /\ rt.status = "returned" =>
               /\ Len(rtLog.errors) < rt.maxRetries
               /\ rtLog.calls = Len(rtLog.errors) + 1
        /\ rt.status = "thrown" =>
               /\ rtLog.calls = rt.maxRetries
               /\ Len(rtLog.errors) = rt.maxRetries
               /\ rt.lastError = rtLog.errors[Len(rtLog.errors)]
               /\ Len(rtLog.sleeps) = rt.maxRetries - 1

\* three invocations failed, with different errors, and the third was thrown
C9_Witness ==
    /\ rt.status = "thrown"
    /\ rt.maxRetries = 3
    /\ rtLog.errors = <<"e1", "e1", "e2">>
    /\ rt.lastError = "e2"

----------------------------------------------------------------------------
(* C10 *)

\* C10: after a health check that failed, safeSendMessage sleeps no backoff
\* and invokes nothing again: no run waits in a backoff of retryOperation
\* with the 'not healthy' error as the one it caught
C10_NotHealthyFailsAtOnce ==
    \A r \in RunIds :
        (runs[r].pc = "backoff") => (runs[r].retry.lastError # NotHealthyError)

----------------------------------------------------------------------------
(* C11 *)

\* C11: the batch size an accepted run uses is a number of 1..15, and it is
\* 15 when the batchSize of the request is above 15
C11_BatchSizeInRange ==
    \A r \in RunIds :
        Accepted(runs[r]) =>
            /\ ~IsNaN(runs[r].actualBatchSize)
            /\ runs[r].actualBatchSize[1] \in 1..BatchSizeCap
            /\ (runs[r].batchSize.kind = "number"
                    /\ runs[r].batchSize.v > BatchSizeCap)
                   => runs[r].actualBatchSize = Num(BatchSizeCap)

----------------------------------------------------------------------------
(* C12 *)

C12_CutLoopsCannotAdvance ==
    \A r \in RunIds :
        (runs[r].pc = "interbatch" /\ Batches(runs[r]) >= MaxBatches) =>
            /\ ~IsNaN(runs[r].actualBatchSize)
            /\ runs[r].actualBatchSize[1] <= 0
            /\ runs[r].i[1] <= 0
            /\ Len(runs[r].numbersToSend) > 0

\* a run with recipients and a step of 0 or less never completes
C12_StuckLoopNeverCompletes ==
    \A r \in RunIds :
        (/\ Accepted(runs[r])
         /\ ~IsNaN(runs[r].actualBatchSize)
         /\ runs[r].actualBatchSize[1] <= 0
         /\ Len(runs[r].numbersToSend) > 0)
        => runs[r].pc # "completed"

----------------------------------------------------------------------------
(* C13 *)

\* C13: the 'complete' event of a run carries one result per recipient of
\* numbersToSend
C13_CompleteCoversAll ==
    \A r \in RunIds :
        runs[r].pc = "completed" =>
            /\ LastEvent(runs[r]).type = "complete"
            /\ Len(LastEvent(runs[r]).results) = Len(runs[r].numbersToSend)

----------------------------------------------------------------------------
(* C14 *)

\* C14: the results of a run, those of the batch in progress included, are
\* the outcomes of the first numbers of numbersToSend, in its order
C14_ResultsArePrefix ==
    \A r \in RunIds :
        LET res == AllResults(runs[r])
        IN  /\ Len(res) <= Len(runs[r].numbersToSend)
            /\ \A p \in 1..Len(res) : res[p].number = runs[r].numbersToSend[p]

\* three numbers in batches of two, all three outcomes recorded: the third is
\* the first of the second batch
C14_Witness ==
    \E r \in RunIds :
        /\ runs[r].actualBatchSize = Num(2)
        /\ Len(runs[r].numbersToSend) = 3
        /\ Len(runs[r].results) = 3
        /\ runs[r].results[2].status = "failed"
        /\ runs[r].results[3].status = "sent"

----------------------------------------------------------------------------
(* C17 *)

\* C17: an accepted run with no recipient completes at once with no result,
\* and its summary has total 0, sent 0, failed 0 and a success rate that is
\* not NaN
C17_EmptyListCompletes ==
    \A r \in RunIds :
        (Accepted(runs[r]) /\ runs[r].numbersToSend = <<>>) =>
            /\ runs[r].pc = "completed"
            /\ runs[r].results = <<>>
            /\ LastEvent(runs[r]).summary.total = 0
            /\ LastEvent(runs[r]).summary.sent = 0
            /\ LastEvent(runs[r]).summary.failed = 0
            /\ LastEvent(runs[r]).summary.successRate # "NaN%"

----------------------------------------------------------------------------
(* C15 *)

\* the digit-only forms of the trimmed, non-empty lines of the answered file
ExclusionSet(answered) ==
    IF ~answered.present THEN {}
    ELSE LET lines == ParseLines(answered.text)
         IN  {DigitsOnly(lines[p]) : p \in 1..Len(lines)}

\* C15: the send list is the subsequence of the trimmed, non-empty numbers
\* lines whose digits are not in the exclusion set, with order and text kept;
\* two lines with the same digits are both in it or both left out
C15_FilterIsSubsequence ==
    (call.fn = "numbersToSend" /\ call.done) =>
        LET lines == ParseLines(call.numbers)
            excluded == ExclusionSet(call.answered)
            Kept(line) == DigitsOnly(line) \notin excluded
            InList(line) == \E q \in 1..Len(call.numbersToSend) :
                                call.numbersToSend[q] = line
        IN  /\ call.numbersToSend = SelectSeq(lines, Kept)
            /\ \A p, q \in 1..Len(lines) :
                   DigitsOnly(lines[p]) = DigitsOnly(lines[q])
                       => (InList(lines[p]) <=> InList(lines[q]))

\* '22\n2-2\n1' with the answered file '(2)2': both forms of 22 are dropped
C15_Witness ==
    /\ call.fn = "numbersToSend"
    /\ call.done
    /\ call.numbers = <<"2", "2", "\n", "2", "-", "2", "\n", "1">>
    /\ call.answered = File(<<"(", "2", ")", "2">>)
    /\ call.numbersToSend = << <<"1">> >>

----------------------------------------------------------------------------
(* C16 *)

\* C16: the chat id of a number that contains '@' is the number itself, and
\* of any other number its digits followed by '@c.us'
C16_ChatIdPassThrough ==
    (call.fn = "chatId" /\ call.done) =>
        call.chatId = IF \E p \in 1..Len(call.number) : call.number[p] = "@"
                      THEN call.number
                      ELSE DigitsOnly(call.number) \o <<"@", "c", ".", "u", "s">>

----------------------------------------------------------------------------
(* C18 *)

\* a handle that was created and on which destroy() was not called
Live(h) == ~handles[h].destroyed

\* C18: no user has two live handles
C18_OneLiveHandle ==
    \A u \in Users :
        Cardinality({h \in 1..Len(handles) : handles[h].user = u /\ Live(h)}) <= 1

----------------------------------------------------------------------------
(* C19 *)

\* C19: a step that answers init-whatsapp for a user whose registered handle
\* is healthy answers status 'ready' with needsQR false, and leaves handles,
\* clients and userQRCodes as they were
C19_Step ==
    \A u \in Users :
        (/\ u \in DOMAIN clients
         /\ IsClientHealthy(clients[u])
         /\ resp' # resp
         /\ resp'.endpoint = "init-whatsapp"
         /\ resp'.user = u)
        => /\ resp'.status = "ready"
           /\ resp'.needsQR = FALSE
           /\ handles' = handles
           /\ clients' = clients
           /\ userQRCodes' = userQRCodes

C19_HealthyInitIsNoOp == [][C19_Step]_vars

\* init-whatsapp answered 'ready' for a user whose handle is ready
C19_Witness ==
    /\ resp = Response("init-whatsapp", "u1", "ready", FALSE)
    /\ "u1" \in DOMAIN clients
    /\ handles[clients["u1"]].st = "ready"
    /\ "u1" \in DOMAIN userQRCodes

----------------------------------------------------------------------------
(* C20 *)

\* C20: no pairing payload is stored for a user whose registered handle is
\* ready, and the step in which a handle becomes ready leaves none for its
\* user
C20_NoPayloadWhenReady ==
    \A u \in DOMAIN userQRCodes :
        ~(u \in DOMAIN clients /\ handles[clients[u]].st = "ready")

----------------------------------------------------------------------------
(* C21 *)

\* run r aborts in this step, or the process ends over its rejected handler
AbortStep(r) ==
    \/ ~Aborted(runs[r]) /\ Aborted(runs'[r])
    \/ Aborted(runs[r]) /\ alive /\ ~alive'

\* C21: a step in which the run of one user aborts leaves a run in progress
\* of another user in progress, with its results, its entry of activeSessions
\* and its user's entry of clients as they were
C21_Step ==
    \A r, q \in RunIds :
        (/\ runs[r].user # runs[q].user
         /\ InProgress(runs[q])
         /\ AbortStep(r))
        => /\ InProgress(runs'[q])
           /\ runs'[q].results = runs[q].results
           /\ Lookup(activeSessions', runs[q].sessionId)
                  = Lookup(activeSessions, runs[q].sessionId)
           /\ Lookup(clients', runs[q].user) = Lookup(clients, runs[q].user)

C21_OtherUserUntouched == [][C21_Step]_vars

----------------------------------------------------------------------------
(* C22 *)

\* C22: two accepted runs have different session ids
C22_DistinctRunIds ==
    \A r, q \in RunIds :
        (r # q /\ Accepted(runs[r]) /\ Accepted(runs[q]))
            => runs[r].sessionId # runs[q].sessionId

----------------------------------------------------------------------------
(* C23 *)

\* the request has no message, no numbers file, or no number left to send to
Invalid(req) ==
    \/ ~req.message
    \/ ~req.numbers.present
    \/ NumbersToSend(req.numbers.text, req.answered) = <<>>

\* C23: a request with no message, no numbers file or an empty send list is
\* answered with an error status and ended, with no event written, no result
\* and no entry in activeSessions
C23_InvalidIsRejected ==
    \A r \in RunIds :
        Invalid(runs[r].req) =>
            /\ runs[r].pc = "refused"
            /\ runs[r].statusCode = 400
            /\ runs[r].ended
            /\ runs[r].events = <<>>
            /\ runs[r].results = <<>>
            /\ runs[r].sessionId \notin DOMAIN activeSessions

----------------------------------------------------------------------------
(* C24 *)

\* C24: the send list filtered again with the same answered numbers is the
\* send list
C24_FilterIdempotent ==
    call.againDone => call.again = call.numbersToSend

\* '22\n2-2\n1' with the answered file '22\n': two numbers dropped, one kept,
\* and the list filtered again
C24_Witness ==
    /\ call.againDone
    /\ call.numbers = <<"2", "2", "\n", "2", "-", "2", "\n", "1">>
    /\ call.answered = File(<<"2", "2", "\n">>)
    /\ call.again = << <<"1">> >>

----------------------------------------------------------------------------
(* C25 *)

\* run r writes the 'processing' event of a batch in this step
BatchEndStep(r) ==
    /\ Len(runs'[r].events) > Len(runs[r].events)
    /\ \E p \in (Len(runs[r].events) + 1)..Len(runs'[r].events) :
           runs'[r].events[p].status = "processing"

\* C25: a run whose handle is unhealthy when a batch ends aborts in that
\* step, with no inter-batch delay and no number of a later batch attempted,
\* and an aborted run does nothing more
C25_Step ==
    \A r \in RunIds :
        /\ (BatchEndStep(r) /\ ~IsClientHealthy(runs[r].client))
               => /\ Aborted(runs'[r])
                  /\ Len(runs'[r].events) = Len(runs[r].events) + 1
                  /\ runs'[r].results = AllResults(runs[r])
        /\ Aborted(runs[r]) => runs'[r] = runs[r]

C25_UnhealthyAbortsAtBoundary == [][C25_Step]_vars

\* a run in batches of one aborted after its first batch, with a number left
C25_Witness ==
    \E r \in RunIds :
        /\ Aborted(runs[r])
        /\ runs[r].actualBatchSize = Num(1)
        /\ Len(runs[r].results) = 1
        /\ Len(runs[r].numbersToSend) > 1
        /\ LastEvent(runs[r]).status = "processing"

----------------------------------------------------------------------------
(* C26 *)

\* C26: a run that has one result per recipient has completed
C26_ProcessedAllCompletes ==
    \A r \in RunIds :
        (Accepted(runs[r]) /\ Len(runs[r].results) = Len(runs[r].numbersToSend))
            => runs[r].pc = "completed"

\* C26 as amended: when the batch that ends holds the last recipients and the
\* handle is healthy, the run writes that batch's 'processing' event, then
\* the 'complete' event with every result, and ends, all in that step
C26_AmendedStep ==
    \A r \in RunIds :
        (/\ BatchEndStep(r)
         /\ IsClientHealthy(runs[r].client)
         /\ Len(runs'[r].results) = Len(runs[r].numbersToSend))
        => /\ runs'[r].pc = "completed"
           /\ runs'[r].ended
           /\ Len(runs'[r].events) = Len(runs[r].events) + 2
           /\ LastEvent(runs'[r]).type = "complete"
           /\ LastEvent(runs'[r]).results = runs'[r].results

C26_HealthyLastBatchCompletes == [][C26_AmendedStep]_vars

\* a run of three numbers in batches of two completed, one number failed
C26_Witness ==
    \E r \in RunIds :
        /\ runs[r].pc = "completed"
        /\ runs[r].actualBatchSize = Num(2)
        /\ Len(runs[r].results) = 3
        /\ CountStatus(runs[r].results, "failed") = 1

----------------------------------------------------------------------------
(* C27 *)

\* the number of recipients run has started on
Started(run) == Len(run.results) + (IF InBatch(run) THEN run.k ELSE 0)

\* C27: inside a batch every number before the k-th has its outcome, and
\* the k-th has none exactly while its send or its backoff is pending
C27_OneInFlight ==
    \A r \in RunIds :
        InBatch(runs[r]) =>
            Len(runs[r].batchResults) =
                IF runs[r].pc \in {"send", "backoff"} THEN runs[r].k - 1
                ELSE runs[r].k

\* C27: a run starts on one more recipient only in a step in which its
\* pacing, cooldown or inter-batch timer fires, with every earlier outcome
\* recorded, and with a first attempt
C27_Step ==
    \A r \in RunIds :
        Started(runs'[r]) > Started(runs[r]) =>
            /\ Started(runs'[r]) = Started(runs[r]) + 1
            /\ runs[r].pc \in {"pacing", "cooldown", "interbatch"}
            /\ Len(AllResults(runs[r])) = Started(runs[r])
            /\ runs'[r].retry.attempt = 1
            /\ AllResults(runs'[r]) = AllResults(runs[r])

C27_Sequential == [](C27_OneInFlight) /\ [][C27_Step]_vars

\* the second number of a batch is being sent after the first one failed
C27_Witness ==
    \E r \in RunIds :
        /\ runs[r].pc = "send"
        /\ runs[r].k = 2
        /\ runs[r].batchResults[1].status = "failed"

----------------------------------------------------------------------------
(* C28 *)

\* run r calls client.sendMessage in this step
IssuesSend(r) ==
    /\ runs'[r].pc = "send"
    /\ r <= Len(runs) => runs[r].pc # "send"

\* C28: a step in which a run calls client.sendMessage, for a first attempt
\* or a retry, finds the handle of that run healthy, and no handle changes
\* in it
C28_Step ==
    \A r \in 1..Len(runs') :
        IssuesSend(r) =>
            /\ IsClientHealthy(runs'[r].client)
            /\ handles' = handles
            /\ r <= Len(runs) => runs'[r].client = runs[r].client

C28_SendAfterHealthCheck == [][C28_Step]_vars

\* the second attempt of a send is in flight
C28_Witness ==
    \E r \in RunIds :
        /\ runs[r].pc = "send"
        /\ runs[r].retry.attempt = 2
        /\ runs[r].retry.lastError = TransientError

----------------------------------------------------------------------------
(* C29 *)

\* the upper end, exclusive, of the jitter: getRandomInt(1000)
JitterRange == 1000

\* the sleep after failed attempt n is the backoff delay of n plus a jitter
SleepsFollowFormula ==
    \A n \in 1..Len(rtLog.sleeps) :
        \E jitter \in GetRandomInt(JitterRange) :
            rtLog.sleeps[n] = rt.baseDelay * Pow2(n - 1) + jitter

\* each sleep of the call is longer than the one before
SleepsIncrease ==
    \A n \in 1..(Len(rtLog.sleeps) - 1) : rtLog.sleeps[n] < rtLog.sleeps[n + 1]

\* C29 as stated: the sleep after failed attempt n is baseDelay * 2^(n-1)
\* plus a jitter in 0..999, and the sleeps of one call are strictly
\* increasing, for every positive baseDelay and every maxRetries >= 3
C29_SleepsStrictlyIncrease ==
    (rt.baseDelay > 0 /\ rt.maxRetries >= 3) =>
        SleepsFollowFormula /\ SleepsIncrease

\* C29, amended: the sleep after failed attempt n is baseDelay * 2^(n-1) plus
\* a jitter in 0..999 for every positive baseDelay; the sleeps of one call
\* are strictly increasing when baseDelay is at least the jitter range
C29_SleepsIncreaseFromJitterRange ==
    (rt.baseDelay > 0 /\ rt.maxRetries >= 3) =>
        /\ SleepsFollowFormula
        /\ rt.baseDelay >= JitterRange => SleepsIncrease

\* a call with baseDelay 1000 slept three times, the first time with the
\* largest jitter and the second with the smallest
C29_Witness ==
    /\ rt.baseDelay = JitterRange
    /\ rt.maxRetries >= 3
    /\ Len(rtLog.sleeps) = 3
    /\ rtLog.sleeps[1] = 1999
    /\ rtLog.sleeps[2] = 2000

----------------------------------------------------------------------------
(* C30 *)

RECURSIVE BatchStart(_, _)

\* the value of i at the start of the j-th iteration of the batch loop
BatchStart(run, j) ==
    IF j <= 1 THEN Num(0)
    ELSE JsAdd(BatchStart(run, j - 1), run.actualBatchSize)

\* the batch of the j-th iteration
BatchOf(run, j) ==
    Slice(run.numbersToSend, BatchStart(run, j),
          JsAdd(BatchStart(run, j), run.actualBatchSize))

RECURSIVE ProcessedAfter(_, _)

\* the number of recipients in the first j batches
ProcessedAfter(run, j) ==
    IF j <= 0 THEN 0 ELSE ProcessedAfter(run, j - 1) + Len(BatchOf(run, j))

\* the 'processing' events written so far
ProcessingEvents(run) ==
    {j \in 1..Len(run.events) : run.events[j].status = "processing"}

\* the progress event due after the j-th batch: the totals of the outcomes
\* of the first j batches
ProcessingEventOf(run, j) ==
    LET done == SubSeq(run.results, 1, ProcessedAfter(run, j))
    IN  ProgressEvent("processing", Len(run.numbersToSend), Len(done),
                      CountStatus(done, "sent"), CountStatus(done, "failed"),
                      Len(BatchOf(run, j)))

EventStreamOf(run) ==
    LET n == Cardinality(ProcessingEvents(run))
    IN  /\ (InBatch(run) \/ AllResults(run) # <<>>) => Accepted(run)
        /\ Accepted(run) =>
               /\ run.events[1] = ProgressEvent("starting",
                                       Len(run.numbersToSend), 0, 0, 0, 0)
               /\ \A j \in 2..Len(run.events) :
                      /\ run.events[j].status # "starting"
                      /\ \/ j = Len(run.events) /\ Terminal(run.events[j])
                         \/ /\ ProcessedAfter(run, j - 1) <= Len(run.results)
                            /\ run.events[j] = ProcessingEventOf(run, j - 1)
               /\ Len(run.results) = ProcessedAfter(run, n)
               /\ InBatch(run) => run.batch = BatchOf(run, n + 1)

\* C30: the events of a run start with one 'starting' event with the total
\* and zero counters, written before any send; then comes one 'processing'
\* event for each batch that ended, in the order of the batches, with the
\* totals of the outcomes recorded up to that batch
C30_EventStream == \A r \in RunIds : EventStreamOf(runs[r])

----------------------------------------------------------------------------
(* C31 *)

\* C31: the timer processBatch sets after a failed number is shorter than
\* the one it sets after a sent number, whatever delayMultiplier the request
\* carries
C31_CooldownShorterThanPacing ==
    (call.fn = "processBatch" /\ call.done) => call.cooldown < call.pacing

----------------------------------------------------------------------------
(* C32 *)

\* the handles init-whatsapp created for a user
HandlesOf(hs, user) == {h \in 1..Len(hs) : hs[h].user = user}

\* handle h was superseded by a later init-whatsapp of its user, or removed
\* by a logout
Stale(h) ==
    \/ \E g \in HandlesOf(handles, handles[h].user) : g > h
    \/ handles[h].destroyed

\* handle h delivers 'ready' or 'disconnected' in this step
Delivers(h) ==
    /\ handles'[h].st # handles[h].st
    /\ handles'[h].st \in {"ready", "disconnected"}

\* the registry and the pairing payloads hold handle h for no more users
\* after the step than before
NotStoredAnew(h) ==
    /\ \A u \in DOMAIN clients' :
           clients'[u] = h => (u \in DOMAIN clients /\ clients[u] = h)
    /\ \A u \in DOMAIN userQRCodes' :
           userQRCodes'[u] = h => (u \in DOMAIN userQRCodes /\ userQRCodes[u] = h)

C32_Step ==
    /\ \A u \in DOMAIN clients' :
           \A g \in HandlesOf(handles', u) : g <= clients'[u]
    /\ \A h \in 1..Len(handles) :
           Stale(h) =>
               /\ NotStoredAnew(h)
               /\ Delivers(h) => (clients' = clients /\ userQRCodes' = userQRCodes)

\* C32: the handle registered for a user is the last one created for that
\* user, and a 'ready', 'qr' or 'disconnected' event of a handle that was
\* superseded or removed by a logout changes neither clients nor userQRCodes
C32_RegistryIsLatestHandle == [][C32_Step]_vars

----------------------------------------------------------------------------
(* C33 *)

\* C33: no two runs of one user are in progress together, so no two sends
\* of one user are in flight on one handle
C33_OneRunPerUser ==
    \A r, q \in RunIds :
        (r # q /\ runs[r].user = runs[q].user)
            => ~(InProgress(runs[r]) /\ InProgress(runs[q]))

----------------------------------------------------------------------------
(* C34 *)

\* C34: a response of session-progress that carries the counters of a run
\* goes to the user who started that run
C34_ProgressOnlyToOwner ==
    (resp.endpoint = "session-progress" /\ resp.progress # <<>>)
        => resp.progress[1].user = resp.user

----------------------------------------------------------------------------
(* C35 *)

\* C35: once the response of a send-batch request has ended, the keep-alive
\* timer of that request is no longer armed
C35_KeepAliveCancelled ==
    \A r \in RunIds : runs[r].ended => ~runs[r].keepAlive

----------------------------------------------------------------------------
(* C36 *)

\* C36: in every revision, the pairing payload in a response of /api/qr was
\* emitted by a handle created for the user the response goes to
C36_QrOfOwnHandle ==
    (resp.endpoint = "qr" /\ resp.qr # <<>>)
        => handles[resp.qr[2]].user = resp.user

\* two users are pairing, each with a payload stored, and one of them was
\* served a payload by /api/qr
C36_Witness ==
    /\ \A u \in Users :
           /\ u \in DOMAIN userQRCodes
           /\ u \in DOMAIN clients
           /\ handles[clients[u]].st = "init"
    /\ resp.endpoint = "qr"
    /\ resp.qr # <<>>

====
